---- MODULE Spec2Model ----
(***************************************************************************)
(* State-machine model of src/owl/app.py: the process supervisor           *)
(* (run_script, terminate_process, status_message), the output relay       *)
(* (run_script.read_output) and the child processes they drive.            *)
(*                                                                         *)
(* Threads of the program:                                                 *)
(*   - one driver per run request: the body of the generator run_script;   *)
(*   - one relay per started run: the daemon thread read_output;           *)
(*   - one handler per click on the stop button: terminate_process.        *)
(* The module-level globals current_process, process_lock and log_queue    *)
(* are shared by all of them.  Nothing in app.py serialises the callbacks, *)
(* so every interleaving of their steps is a behaviour of the model.       *)
(*                                                                         *)
(* Non-ASCII message texts of the source are rendered in ASCII.            *)
(***************************************************************************)
EXTENDS Integers, Sequences, FiniteSets, TLC

\* ------------------------------------------------------------- bounds
MaxLines == 2       \* output lines the children write
MaxTicks == 2       \* clock advances

MaxLogLines == 3    \* lines of a log handed to extract_answer
MaxCalls == 2       \* calls of an extractor on one log
MaxFollow == 10     \* lines after the marker line that an array spans

\* ------------------------------------------------- program constants
TIMEOUT == 1800     \* run_script: timeout = 1800
GRACE_PERIOD == 5   \* terminate_process: wait(timeout=5)
WINDOW == 10        \* extract_chat_history: range(i+1, min(i+10, len(logs)))

\* Two run requests and two terminate requests: the fewest callbacks
\* with which a callback of either kind can meet another of its kind.
Runs == {1, 2}
Terms == {1, 2}

\* ------------------------------------------------------------ strings
\* A string is a sequence of characters.
Whitespace == {" ", "\t", "\n"}

\* The token of the answer convention, "Answer:".
ANSWER_TOKEN == <<"A", "n", "s", "w", "e", "r", ":">>

\* Lines a script writes to its stdout: one without the token and two
\* that carry different answers.
PlainLine == <<"x", "\n">>
AnswerLineA == ANSWER_TOKEN \o <<" ", "a", "\n">>
AnswerLineB == <<"x", " ">> \o ANSWER_TOKEN \o <<"b", " ", "\n">>

\* What the environment does in one behaviour: how many run requests and
\* terminate requests arrive, how many lines the children write, how
\* often the clock advances and which lines the children write.  A second
\* run request may arrive at any time after the first.
Scenario(runs, terms, lines, ticks, texts) ==
    [runs |-> runs, terms |-> terms, lines |-> lines, ticks |-> ticks,
     texts |-> texts]

Scenarios ==
    { Scenario(2, 0, 1, 0, {PlainLine}),
      Scenario(1, 1, MaxLines, MaxTicks, {PlainLine}),
      Scenario(1, 2, 0, 0, {PlainLine}),
      Scenario(1, 0, MaxLines, 0, {PlainLine, AnswerLineA, AnswerLineB}) }

\* The child spawned by run r is process r; 0 stands for None.
None == 0

\* The clock advances by the grace period or by the budget.
TickSteps == {GRACE_PERIOD, TIMEOUT}

\* Exit codes of a child that ends through its own code path.
ExitCodes == {0, 1}

\* Questions typed into the question box, as sequences of characters.
Questions == {<<>>, <<" ">>, <<"\n", " ">>, <<"q">>, <<" ", "q", " ">>}

RECURSIVE LStrip(_)
LStrip(s) ==
    IF s # <<>> /\ Head(s) \in Whitespace THEN LStrip(Tail(s)) ELSE s

RECURSIVE RStrip(_)
RStrip(s) ==
    IF s # <<>> /\ s[Len(s)] \in Whitespace
    THEN RStrip(SubSeq(s, 1, Len(s) - 1)) ELSE s

\* str.strip()
Strip(s) == RStrip(LStrip(s))

\* ----------------------------------------------------------- messages
StatusRunning == <<"running">>
StatusSuccess == <<"succeeded">>
StatusFailed(code) == <<"failed", code>>
ValidationMsg == <<"please enter a question">>
NoStatus == <<"nothing">>

TerminatedMsg == "process terminated"
NoProcessMsg == "no running process"
NoResult == "no result"

\* Lines on log_queue: output line i of child p, the watchdog's notice of
\* run r, the notice of terminate handler t.
OutLine(p, i) == <<"out", p, i>>
TimeoutLine(r) == <<"timeout", r, 0>>
TerminatedLine(t) == <<"terminated", t, 0>>

\* The 5-tuple run_script yields or returns: status, log, log file path.
\* (The answer and the chat history are functions of the log.)
Snapshot(status, log, path) == [status |-> status, log |-> log, path |-> path]
NoSnapshot == Snapshot(NoStatus, <<>>, 0)

\* ------------------------------------------------------ configuration
\* Names of ENV_GROUPS, each written as one symbol: no name contains
\* whitespace, "#", "=" or a line break.
EnvNames == {<<"OPENAI_API_KEY">>, <<"HF_TOKEN">>}

\* The file .env: absent, or a text.
NoFile == [exists |-> FALSE, text |-> <<>>]
File(text) == [exists |-> TRUE, text |-> text]

\* os.environ: a function from the names that are set to their values.
NoEnviron == [k \in {} |-> <<>>]

\* A dict with "" for every name of ENV_GROUPS.
NoValues == [k \in EnvNames |-> <<>>]

VARIABLES
    limits,           \* the scenario of the behaviour
    ticks,            \* clock advances so far
    current_process,  \* the global handle
    process_lock,     \* holder of the lock, <<>> when free
    log_queue,        \* the global queue
    pst,              \* child: "none", "running", "exited"
    pcode,            \* child: exit code once exited
    phow,             \* child: "self" or "signal", how it ended
    pipe,             \* child: stdout lines written and not yet read
    emitted,          \* child: the lines written so far, as texts
    sigs,             \* child: signals delivered to it, in order
    dpc,              \* driver: position in run_script
    logs,             \* driver: the local list logs
    elapsed,          \* driver: time.time() - start_time
    observed,         \* driver: the last snapshot yielded to the consumer
    ret,              \* driver: the value of the return statement
    tmo,              \* driver: its watchdog called terminate()
    rpc,              \* relay: position in read_output
    rproc,            \* relay: the process whose stdout it iterates
    rline,            \* relay: the line in hand
    file,             \* relay: the lines in the run's log file
    pushed,           \* relay: the lines it has put on log_queue
    tpc,              \* handler: position in terminate_process
    waited,           \* handler: time spent in wait(timeout=5)
    tresult,          \* handler: the message returned
    tsent,            \* handler: signals it delivered
    tputs,            \* handler: lines it put on log_queue
    call_logs,        \* extractors: the argument logs of the calls
    answers,          \* extractors: what extract_answer returned, per call
    chats,            \* extractors: what extract_chat_history returned
    dotfile,          \* configuration: the file .env
    environ,          \* configuration: os.environ of the process
    loaded,           \* configuration: what load_env_vars returned last
    submitted,        \* configuration: the argument of the last save
    before,           \* configuration: the values stored before that save
    epc               \* configuration: the last operation

procvars == <<pst, pcode, phow, pipe, emitted, sigs>>
drvvars == <<dpc, logs, elapsed, observed, ret, tmo>>
relvars == <<rpc, rproc, rline, file, pushed>>
termvars == <<tpc, waited, tresult, tsent, tputs>>
globvars == <<current_process, process_lock, log_queue>>
supvars == <<limits, ticks, globvars, procvars, drvvars, relvars, termvars>>
extvars == <<call_logs, answers, chats>>
envvars == <<dotfile, environ, loaded, submitted, before, epc>>
libvars == <<extvars, envvars>>
vars == <<supvars, libvars>>

Driver(r) == <<"run", r>>
Handler(t) == <<"term", t>>
Free == <<>>

\* The supervisor before any request.
SupervisorIdle ==
    /\ ticks = 0
    /\ current_process = None
    /\ process_lock = Free
    /\ log_queue = <<>>
    /\ pst = [p \in Runs |-> "none"]
    /\ pcode = [p \in Runs |-> 0]
    /\ phow = [p \in Runs |-> "none"]
    /\ pipe = [p \in Runs |-> <<>>]
    /\ emitted = [p \in Runs |-> <<>>]
    /\ sigs = [p \in Runs |-> <<>>]
    /\ dpc = [r \in Runs |-> "idle"]
    /\ logs = [r \in Runs |-> <<>>]
    /\ elapsed = [r \in Runs |-> 0]
    /\ observed = [r \in Runs |-> NoSnapshot]
    /\ ret = [r \in Runs |-> NoSnapshot]
    /\ tmo = [r \in Runs |-> FALSE]
    /\ rpc = [r \in Runs |-> "none"]
    /\ rproc = [r \in Runs |-> None]
    /\ rline = [r \in Runs |-> <<>>]
    /\ file = [r \in Runs |-> <<>>]
    /\ pushed = [r \in Runs |-> <<>>]
    /\ tpc = [t \in Terms |-> "idle"]
    /\ waited = [t \in Terms |-> 0]
    /\ tresult = [t \in Terms |-> NoResult]
    /\ tsent = [t \in Terms |-> <<>>]
    /\ tputs = [t \in Terms |-> 0]

\* No call of the extractors is under way.
ExtractIdle ==
    /\ call_logs = <<>>
    /\ answers = <<>>
    /\ chats = <<>>

\* The configuration before the process has touched it.
EnvIdle ==
    /\ dotfile = NoFile
    /\ environ = NoEnviron
    /\ loaded = NoValues
    /\ submitted = NoValues
    /\ before = [stored |-> <<>>, environ |-> NoEnviron]
    /\ epc = "none"

Init ==
    /\ limits \in Scenarios
    /\ SupervisorIdle
    /\ ExtractIdle
    /\ EnvIdle

\* ------------------------------------------------------------ helpers
\* Popen.poll() is None
Alive(p) == pst[p] = "running"

\* Popen.send_signal: polls first, and delivers only to a live child.
Deliver(p, sig) == IF Alive(p) THEN [sigs EXCEPT ![p] = Append(@, sig)] ELSE sigs

\* The signal terminate_process sends first: SIGTERM, and
\* CTRL_BREAK_EVENT where os.name is 'nt'.
StopSignal == "stop"
\* Popen.terminate(): SIGTERM, and TerminateProcess on Windows.
TerminateSignal == "terminate"
\* Popen.kill(): SIGKILL, and TerminateProcess on Windows.
KillSignal == "kill"
\* The signals a child can handle, and so survive or answer with a code
\* of its own (SIGTERM and CTRL_BREAK_EVENT).
Cooperative == {StopSignal, TerminateSignal}

\* returncode of a child a signal ended, on either platform: -signal
\* number on POSIX, the exit code 1 given to TerminateProcess, and
\* STATUS_CONTROL_C_EXIT (0xC000013A, as the signed 32-bit number).
SignalCodes(sig) ==
    CASE sig = StopSignal -> {-15, -1073741510}
      [] sig = TerminateSignal -> {-15, 1}
      [] OTHER -> {-9, 1}

status_message(p) ==
    IF Alive(p) THEN StatusRunning
    ELSE IF pcode[p] = 0 THEN StatusSuccess
    ELSE StatusFailed(pcode[p])

\* ---------------------------------------------------------------- clock
LoopPcs == {"poll", "drain", "drain_get", "yield"}
Min(a, b) == IF a < b THEN a ELSE b

\* Time passes for the drivers in their polling loop and for the handlers
\* in wait(timeout=5).  A timer past its threshold stays there.
Tick ==
    /\ ticks < limits.ticks
    /\ \/ \E r \in Runs : dpc[r] \in LoopPcs
       \/ \E t \in Terms : tpc[t] = "wait"
    /\ \E d \in TickSteps :
          /\ elapsed' = [r \in Runs |->
                IF dpc[r] \in LoopPcs
                THEN Min(elapsed[r] + d, TIMEOUT + 1) ELSE elapsed[r]]
          /\ waited' = [t \in Terms |->
                IF tpc[t] = "wait"
                THEN Min(waited[t] + d, GRACE_PERIOD) ELSE waited[t]]
    /\ ticks' = ticks + 1
    /\ UNCHANGED <<libvars, limits>>
    /\ UNCHANGED <<dpc, logs, observed, ret, tmo>>
    /\ UNCHANGED <<tpc, tresult, tsent, tputs>>
    /\ UNCHANGED <<globvars, procvars, relvars>>

\* ---------------------------------------------------------------- child
\* The script is opaque: it writes lines, ends through its own code, ends
\* by the default action of a signal, or shuts down in its handler of a
\* cooperative signal with a code of its choosing.
ChildEmit(p) ==
    /\ Alive(p)
    /\ Len(emitted[1]) + Len(emitted[2]) < limits.lines
    /\ \E text \in limits.texts :
          emitted' = [emitted EXCEPT ![p] = Append(@, text)]
    /\ pipe' = [pipe EXCEPT ![p] = Append(@, OutLine(p, Len(emitted[p]) + 1))]
    /\ UNCHANGED <<pst, pcode, phow, sigs>>
    /\ UNCHANGED <<libvars, limits, ticks, globvars, drvvars, relvars, termvars>>

ChildEnds(p, code, how) ==
    /\ pst' = [pst EXCEPT ![p] = "exited"]
    /\ pcode' = [pcode EXCEPT ![p] = code]
    /\ phow' = [phow EXCEPT ![p] = how]
    /\ UNCHANGED <<pipe, emitted, sigs>>
    /\ UNCHANGED <<libvars, limits, ticks, globvars, drvvars, relvars, termvars>>

ChildExit(p) ==
    /\ Alive(p)
    /\ \E code \in ExitCodes : ChildEnds(p, code, "self")

ChildKilled(p) ==
    /\ Alive(p)
    /\ \E i \in DOMAIN sigs[p] :
          \E code \in SignalCodes(sigs[p][i]) : ChildEnds(p, code, "signal")

ChildShutdown(p) ==
    /\ Alive(p)
    /\ \E i \in DOMAIN sigs[p] : sigs[p][i] \in Cooperative
    /\ \E code \in ExitCodes : ChildEnds(p, code, "signal")

\* --------------------------------------------------- driver: run_script
\* run_script contains a yield, so it is a generator: its consumer observes
\* the yielded tuples; the operand of a return statement travels in
\* StopIteration and is kept here in ret.
DriverStep(r, from, to) ==
    /\ dpc[r] = from
    /\ dpc' = [dpc EXCEPT ![r] = to]

\* Lines 134-137: the validation of the question.
RunRequest(r) ==
    /\ dpc[r] = "idle"
    /\ r <= limits.runs
    /\ \A q \in Runs : q < r => dpc[q] # "idle"
    /\ \E question \in Questions :
          IF Strip(question) = <<>>
          THEN /\ dpc' = [dpc EXCEPT ![r] = "returned"]
               /\ ret' = [ret EXCEPT ![r] = Snapshot(ValidationMsg, <<>>, 0)]
          ELSE /\ dpc' = [dpc EXCEPT ![r] = "clear"]
               /\ ret' = ret
    /\ UNCHANGED <<logs, elapsed, observed, tmo>>
    /\ UNCHANGED <<libvars, limits, ticks, globvars, procvars, relvars, termvars>>

\* Line 140: while not log_queue.empty()
ClearTest(r) ==
    /\ dpc[r] = "clear"
    /\ dpc' = [dpc EXCEPT ![r] = IF log_queue = <<>> THEN "lock" ELSE "clear_get"]
    /\ UNCHANGED <<logs, elapsed, observed, ret, tmo>>
    /\ UNCHANGED <<libvars, limits, ticks, globvars, procvars, relvars, termvars>>

\* Line 141: log_queue.get(), which blocks on an empty queue.
ClearGet(r) ==
    /\ DriverStep(r, "clear_get", "clear")
    /\ log_queue # <<>>
    /\ log_queue' = Tail(log_queue)
    /\ UNCHANGED <<current_process, process_lock>>
    /\ UNCHANGED <<logs, elapsed, observed, ret, tmo>>
    /\ UNCHANGED <<libvars, limits, ticks, procvars, relvars, termvars>>

\* Line 159: with process_lock (entry).
SpawnLock(r) ==
    /\ DriverStep(r, "lock", "popen")
    /\ process_lock = Free
    /\ process_lock' = Driver(r)
    /\ UNCHANGED <<current_process, log_queue>>
    /\ UNCHANGED <<logs, elapsed, observed, ret, tmo>>
    /\ UNCHANGED <<libvars, limits, ticks, procvars, relvars, termvars>>

\* with process_lock (exit): the lock is released on the normal path and
\* while the exception of Popen propagates out of run_script.
SpawnUnlock_Leak(r, raised) == IF raised THEN Driver(r) ELSE Free

SpawnUnlock(r, raised) == Free

\* Lines 160-189: subprocess.Popen creates the child and the handle is
\* assigned, the lock is released, the relay thread is started, logs = []
\* and start_time are set; or Popen raises, the assignment does not
\* happen and the exception leaves run_script through the with statement.
Popen(r) ==
    /\ dpc[r] = "popen"
    /\ \/ /\ pst' = [pst EXCEPT ![r] = "running"]
          /\ current_process' = r
          /\ dpc' = [dpc EXCEPT ![r] = "poll"]
          /\ rpc' = [rpc EXCEPT ![r] = "start"]
          /\ logs' = [logs EXCEPT ![r] = <<>>]
          /\ elapsed' = [elapsed EXCEPT ![r] = 0]
       \/ /\ UNCHANGED <<pst, current_process, rpc, logs, elapsed>>
          /\ dpc' = [dpc EXCEPT ![r] = "raised"]
    /\ process_lock' = SpawnUnlock(r, dpc'[r] = "raised")
    /\ UNCHANGED log_queue
    /\ UNCHANGED <<pcode, phow, pipe, emitted, sigs>>
    /\ UNCHANGED <<observed, ret, tmo>>
    /\ UNCHANGED <<rproc, rline, file, pushed>>
    /\ UNCHANGED <<libvars, limits, ticks, termvars>>

\* Line 193: time.time() - start_time > timeout
TimedOut(r) == elapsed[r] > TIMEOUT

\* Lines 191-193: the loop condition polls the global handle, then the
\* watchdog test.
Poll(r) ==
    /\ dpc[r] = "poll"
    /\ dpc' = [dpc EXCEPT ![r] =
          IF ~Alive(current_process) THEN "fin"
          ELSE IF TimedOut(r) THEN "wd_lock"
          ELSE "drain"]
    /\ UNCHANGED <<logs, elapsed, observed, ret, tmo>>
    /\ UNCHANGED <<libvars, limits, ticks, globvars, procvars, relvars, termvars>>

\* Line 194: with process_lock (entry).
WatchdogLock(r) ==
    /\ DriverStep(r, "wd_lock", "wd_term")
    /\ process_lock = Free
    /\ process_lock' = Driver(r)
    /\ UNCHANGED <<current_process, log_queue>>
    /\ UNCHANGED <<logs, elapsed, observed, ret, tmo>>
    /\ UNCHANGED <<libvars, limits, ticks, procvars, relvars, termvars>>

\* Lines 195-198: the handle is polled again; terminate() is called and
\* the notice queued if the child still runs; the lock is released; break.
WatchdogTerminate(r) ==
    /\ DriverStep(r, "wd_term", "fin")
    /\ IF Alive(current_process)
       THEN /\ sigs' = Deliver(current_process, TerminateSignal)
            /\ log_queue' = Append(log_queue, TimeoutLine(r))
            /\ tmo' = [tmo EXCEPT ![r] = TRUE]
       ELSE UNCHANGED <<sigs, log_queue, tmo>>
    /\ process_lock' = Free
    /\ UNCHANGED current_process
    /\ UNCHANGED <<pst, pcode, phow, pipe, emitted>>
    /\ UNCHANGED <<logs, elapsed, observed, ret>>
    /\ UNCHANGED <<libvars, limits, ticks, relvars, termvars>>

\* Line 201: while not log_queue.empty()
DrainTest(r) ==
    /\ dpc[r] = "drain"
    /\ dpc' = [dpc EXCEPT ![r] = IF log_queue = <<>> THEN "yield" ELSE "drain_get"]
    /\ UNCHANGED <<logs, elapsed, observed, ret, tmo>>
    /\ UNCHANGED <<libvars, limits, ticks, globvars, procvars, relvars, termvars>>

\* Lines 202-203: log = log_queue.get(); logs.append(log)
DrainGet(r) ==
    /\ DriverStep(r, "drain_get", "drain")
    /\ log_queue # <<>>
    /\ log_queue' = Tail(log_queue)
    /\ logs' = [logs EXCEPT ![r] = Append(@, Head(log_queue))]
    /\ UNCHANGED <<current_process, process_lock>>
    /\ UNCHANGED <<elapsed, observed, ret, tmo>>
    /\ UNCHANGED <<libvars, limits, ticks, procvars, relvars, termvars>>

\* Lines 206-213: the snapshot handed to the consumer, which resumes the
\* generator at the loop condition.
YieldedSnapshot(r) == Snapshot(status_message(current_process), logs[r], r)

Yield(r) ==
    /\ DriverStep(r, "yield", "poll")
    /\ observed' = [observed EXCEPT ![r] = YieldedSnapshot(r)]
    /\ UNCHANGED <<logs, elapsed, ret, tmo>>
    /\ UNCHANGED <<libvars, limits, ticks, globvars, procvars, relvars, termvars>>

\* Line 216: while not log_queue.empty()
FinalTest(r) ==
    /\ dpc[r] = "fin"
    /\ dpc' = [dpc EXCEPT ![r] = IF log_queue = <<>> THEN "ret" ELSE "fin_get"]
    /\ UNCHANGED <<logs, elapsed, observed, ret, tmo>>
    /\ UNCHANGED <<libvars, limits, ticks, globvars, procvars, relvars, termvars>>

\* Line 217: logs.append(log_queue.get())
FinalGet(r) ==
    /\ DriverStep(r, "fin_get", "fin")
    /\ log_queue # <<>>
    /\ log_queue' = Tail(log_queue)
    /\ logs' = [logs EXCEPT ![r] = Append(@, Head(log_queue))]
    /\ UNCHANGED <<current_process, process_lock>>
    /\ UNCHANGED <<elapsed, observed, ret, tmo>>
    /\ UNCHANGED <<libvars, limits, ticks, procvars, relvars, termvars>>

\* Lines 220-223: the return statement of the generator.
Return(r) ==
    /\ DriverStep(r, "ret", "returned")
    /\ ret' = [ret EXCEPT ![r] =
          Snapshot(status_message(current_process), logs[r], r)]
    /\ UNCHANGED <<logs, elapsed, observed, tmo>>
    /\ UNCHANGED <<libvars, limits, ticks, globvars, procvars, relvars, termvars>>

\* ------------------------------------------------ relay: read_output
\* Lines 171-172: the log file is opened for writing and the iterator is
\* built from the global handle as it is when the thread gets here.
RelayOpen(r) ==
    /\ rpc[r] = "start"
    /\ rpc' = [rpc EXCEPT ![r] = "read"]
    /\ rproc' = [rproc EXCEPT ![r] = current_process]
    /\ file' = [file EXCEPT ![r] = <<>>]
    /\ UNCHANGED <<rline, pushed>>
    /\ UNCHANGED <<libvars, limits, ticks, globvars, procvars, drvvars, termvars>>

\* Line 172: stdout.readline() returns the next line, blocks while the
\* child lives and has written nothing more, and returns "" at the end
\* of the stream, which ends the loop and closes the file.
RelayRead(r) ==
    /\ rpc[r] = "read"
    /\ IF pipe[rproc[r]] # <<>>
       THEN /\ rline' = [rline EXCEPT ![r] = Head(pipe[rproc[r]])]
            /\ pipe' = [pipe EXCEPT ![rproc[r]] = Tail(@)]
            /\ rpc' = [rpc EXCEPT ![r] = "write"]
       ELSE /\ ~Alive(rproc[r])
            /\ rpc' = [rpc EXCEPT ![r] = "done"]
            /\ UNCHANGED <<rline, pipe>>
    /\ UNCHANGED <<rproc, file, pushed>>
    /\ UNCHANGED <<pst, pcode, phow, emitted, sigs>>
    /\ UNCHANGED <<libvars, limits, ticks, globvars, drvvars, termvars>>

\* Lines 175-176: f.write(line); f.flush()
RelayWrite(r) ==
    /\ rpc[r] = "write"
    /\ rpc' = [rpc EXCEPT ![r] = "put"]
    /\ file' = [file EXCEPT ![r] = Append(@, rline[r])]
    /\ UNCHANGED <<rproc, rline, pushed>>
    /\ UNCHANGED <<libvars, limits, ticks, globvars, procvars, drvvars, termvars>>

\* Line 178: log_queue.put(line): the lines the step enqueues.
RelayPut_Drop(r) == <<>>

RelayPutLines(r) == <<rline[r]>>

RelayPut(r) ==
    /\ rpc[r] = "put"
    /\ rpc' = [rpc EXCEPT ![r] = "read"]
    /\ log_queue' = log_queue \o RelayPutLines(r)
    /\ pushed' = [pushed EXCEPT ![r] = @ \o RelayPutLines(r)]
    /\ UNCHANGED <<current_process, process_lock>>
    /\ UNCHANGED <<rproc, rline, file>>
    /\ UNCHANGED <<libvars, limits, ticks, procvars, drvvars, termvars>>

\* ------------------------------------------ handler: terminate_process
TerminateRequest(t) ==
    /\ tpc[t] = "idle"
    /\ t <= limits.terms
    /\ \A u \in Terms : u < t => tpc[u] # "idle"
    /\ tpc' = [tpc EXCEPT ![t] = "lock"]
    /\ UNCHANGED <<waited, tresult, tsent, tputs>>
    /\ UNCHANGED <<libvars, limits, ticks, globvars, procvars, drvvars, relvars>>

\* Line 110: with process_lock (entry).
TerminateLock(t) ==
    /\ tpc[t] = "lock"
    /\ process_lock = Free
    /\ process_lock' = Handler(t)
    /\ tpc' = [tpc EXCEPT ![t] = "check"]
    /\ UNCHANGED <<current_process, log_queue>>
    /\ UNCHANGED <<waited, tresult, tsent, tputs>>
    /\ UNCHANGED <<libvars, limits, ticks, procvars, drvvars, relvars>>

\* Line 111: current_process is not None and current_process.poll() is None
Active_NoPoll == current_process # None

Active == current_process # None /\ Alive(current_process)

\* Lines 111, 127-128: the test, and the else branch with its message.
TerminateCheck(t) ==
    /\ tpc[t] = "check"
    /\ IF Active
       THEN /\ tpc' = [tpc EXCEPT ![t] = "signal"]
            /\ tresult' = tresult
       ELSE /\ tpc' = [tpc EXCEPT ![t] = "unlock"]
            /\ tresult' = [tresult EXCEPT ![t] = NoProcessMsg]
    /\ UNCHANGED <<waited, tsent, tputs>>
    /\ UNCHANGED <<libvars, limits, ticks, globvars, procvars, drvvars, relvars>>

\* Lines 113-116: the cooperative request; wait(timeout=5) starts.
TerminateSignalStep(t) ==
    /\ tpc[t] = "signal"
    /\ tpc' = [tpc EXCEPT ![t] = "wait"]
    /\ sigs' = Deliver(current_process, StopSignal)
    /\ tsent' = [tsent EXCEPT ![t] =
          IF Alive(current_process) THEN Append(@, StopSignal) ELSE @]
    /\ waited' = [waited EXCEPT ![t] = 0]
    /\ UNCHANGED <<tresult, tputs>>
    /\ UNCHANGED <<pst, pcode, phow, pipe, emitted>>
    /\ UNCHANGED <<libvars, limits, ticks, globvars, drvvars, relvars>>

\* Line 120: wait(timeout=5) raises TimeoutExpired once 5 units have
\* passed with the child alive.
GraceExpired_AtOnce(t) == TRUE

GraceExpired(t) == waited[t] >= GRACE_PERIOD

\* Lines 119-121: wait returns when the child has exited; otherwise
\* TimeoutExpired takes the handler to the except clause.
TerminateWait(t) ==
    /\ tpc[t] = "wait"
    /\ \/ /\ ~Alive(current_process)
          /\ tpc' = [tpc EXCEPT ![t] = "put"]
       \/ /\ Alive(current_process)
          /\ GraceExpired(t)
          /\ tpc' = [tpc EXCEPT ![t] = "kill"]
    /\ UNCHANGED <<waited, tresult, tsent, tputs>>
    /\ UNCHANGED <<libvars, limits, ticks, globvars, procvars, drvvars, relvars>>

\* Line 123: current_process.kill()
TerminateKill(t) ==
    /\ tpc[t] = "kill"
    /\ tpc' = [tpc EXCEPT ![t] = "put"]
    /\ sigs' = Deliver(current_process, KillSignal)
    /\ tsent' = [tsent EXCEPT ![t] =
          IF Alive(current_process) THEN Append(@, KillSignal) ELSE @]
    /\ UNCHANGED <<waited, tresult, tputs>>
    /\ UNCHANGED <<pst, pcode, phow, pipe, emitted>>
    /\ UNCHANGED <<libvars, limits, ticks, globvars, drvvars, relvars>>

\* Lines 125-126: the notice is queued and the message returned.
TerminatePut(t) ==
    /\ tpc[t] = "put"
    /\ tpc' = [tpc EXCEPT ![t] = "unlock"]
    /\ log_queue' = Append(log_queue, TerminatedLine(t))
    /\ tputs' = [tputs EXCEPT ![t] = @ + 1]
    /\ tresult' = [tresult EXCEPT ![t] = TerminatedMsg]
    /\ UNCHANGED <<current_process, process_lock>>
    /\ UNCHANGED <<waited, tsent>>
    /\ UNCHANGED <<libvars, limits, ticks, procvars, drvvars, relvars>>

\* with process_lock (exit), on both branches.
TerminateUnlock(t) ==
    /\ tpc[t] = "unlock"
    /\ tpc' = [tpc EXCEPT ![t] = "done"]
    /\ process_lock' = Free
    /\ UNCHANGED <<current_process, log_queue>>
    /\ UNCHANGED <<waited, tresult, tsent, tputs>>
    /\ UNCHANGED <<libvars, limits, ticks, procvars, drvvars, relvars>>

\* ------------------------------------------------- extract_answer
\* sub occurs in s at position i (positions count from 1).
OccursAt(s, sub, i) ==
    /\ i + Len(sub) - 1 <= Len(s)
    /\ SubSeq(s, i, i + Len(sub) - 1) = sub

\* str.find: the first position where sub occurs in s, 0 when there is
\* none.
Find(s, sub) ==
    LET hits == {i \in 1..Len(s) : OccursAt(s, sub, i)}
    IN  IF hits = {} THEN 0
        ELSE CHOOSE i \in hits : \A j \in hits : i <= j

\* sub in s
In(sub, s) == Find(s, sub) # 0

\* str.rfind: the last position where sub occurs in s.
FindLast(s, sub) ==
    LET hits == {i \in 1..Len(s) : OccursAt(s, sub, i)}
    IN  IF hits = {} THEN 0
        ELSE CHOOSE i \in hits : \A j \in hits : i >= j

\* s.rsplit(sub, 1)[1]
AfterFirst_Last(s, sub) == SubSeq(s, FindLast(s, sub) + Len(sub), Len(s))

\* s.split(sub, 1)[1], for s that contains sub.
AfterFirst(s, sub) == SubSeq(s, Find(s, sub) + Len(sub), Len(s))

\* The loop without its break: the last line with the token counts.
RECURSIVE extract_answer_NoBreak(_)
extract_answer_NoBreak(lines) ==
    IF lines = <<>> THEN <<>>
    ELSE IF In(ANSWER_TOKEN, lines[Len(lines)])
         THEN Strip(AfterFirst(lines[Len(lines)], ANSWER_TOKEN))
         ELSE extract_answer_NoBreak(SubSeq(lines, 1, Len(lines) - 1))

\* Lines 234-241: the loop over the lines, left at the first line that
\* contains the token.
RECURSIVE extract_answer(_)
extract_answer(lines) ==
    IF lines = <<>> THEN <<>>
    ELSE IF In(ANSWER_TOKEN, Head(lines))
         THEN Strip(AfterFirst(Head(lines), ANSWER_TOKEN))
         ELSE extract_answer(Tail(lines))

\* The text of a line of log_queue: what the child wrote, or the notice
\* of lines 125 and 197.
LineText(line) ==
    IF line[1] = "out" THEN emitted[line[2]][line[3]]
    ELSE <<line[1], "\n">>

\* Lines 213, 223: extract_answer(logs), the second component of the
\* tuple whose log is snapshot.log.
Answer(snapshot) ==
    extract_answer([i \in DOMAIN snapshot.log |-> LineText(snapshot.log[i])])

\* A call of extract_answer on the log.
ExtractAnswerCall ==
    /\ Len(answers) < MaxCalls
    /\ answers' = Append(answers, extract_answer(call_logs))
    /\ UNCHANGED <<call_logs, chats>>
    /\ UNCHANGED <<supvars, envvars>>

\* ------------------------------------------------------- json.loads
\* JSON values: arrays, objects (the members in order of appearance),
\* strings, numbers and null.
JArray(elements) == [t |-> "array", v |-> elements]
JObject(members) == [t |-> "object", v |-> members]
JString(chars) == [t |-> "string", v |-> chars]
JNumber(digits) == [t |-> "number", v |-> digits]
JNull == [t |-> "null", v |-> <<>>]

Digits == {"0", "1", "2", "3", "4", "5", "6", "7", "8", "9"}
NULL_TOKEN == <<"n", "u", "l", "l">>

\* The outcome of a parsing step: the value and the position after it,
\* or the failure that json.loads reports as JSONDecodeError.
Parsed(val, pos) == [ok |-> TRUE, val |-> val, pos |-> pos]
DecodeError == [ok |-> FALSE, val |-> JNull, pos |-> 0]

\* The character at position i, "" past the end.
CharAt(s, i) == IF i >= 1 /\ i <= Len(s) THEN s[i] ELSE ""

RECURSIVE SkipWs(_, _)
SkipWs(s, i) ==
    IF CharAt(s, i) \in Whitespace THEN SkipWs(s, i + 1) ELSE i

\* The closing quote of a string: a line break or a tab inside a string
\* is an error.
RECURSIVE StringEnd(_, _)
StringEnd(s, i) ==
    IF i > Len(s) \/ s[i] \in {"\n", "\t"} THEN 0
    ELSE IF s[i] = "\"" THEN i
    ELSE StringEnd(s, i + 1)

ParseString(s, i) ==
    LET e == StringEnd(s, i + 1)
    IN  IF e = 0 THEN DecodeError
        ELSE Parsed(JString(SubSeq(s, i + 1, e - 1)), e + 1)

RECURSIVE NumberEnd(_, _)
NumberEnd(s, i) ==
    IF CharAt(s, i) \in Digits THEN NumberEnd(s, i + 1) ELSE i

\* An integer: "0", or digits that do not start with "0".
ParseNumber(s, i) ==
    LET e == IF s[i] = "0" THEN i + 1 ELSE NumberEnd(s, i)
    IN  Parsed(JNumber(SubSeq(s, i, e - 1)), e)

RECURSIVE ParseValue(_, _)
RECURSIVE ParseElements(_, _, _)
RECURSIVE ParseMembers(_, _, _)

\* The elements of an array after "[": values separated by commas.
ParseElements(s, i, acc) ==
    LET e == ParseValue(s, i)
        j == SkipWs(s, e.pos)
    IN  IF ~e.ok THEN DecodeError
        ELSE IF CharAt(s, j) = ","
             THEN ParseElements(s, SkipWs(s, j + 1), Append(acc, e.val))
        ELSE IF CharAt(s, j) = "]"
             THEN Parsed(JArray(Append(acc, e.val)), j + 1)
        ELSE DecodeError

\* The members of an object after "{": "key": value, separated by commas.
ParseMembers(s, i, acc) ==
    LET k == IF CharAt(s, i) = "\"" THEN ParseString(s, i) ELSE DecodeError
        c == SkipWs(s, k.pos)
        e == IF k.ok /\ CharAt(s, c) = ":"
             THEN ParseValue(s, SkipWs(s, c + 1)) ELSE DecodeError
        j == SkipWs(s, e.pos)
        members == Append(acc, <<k.val.v, e.val>>)
    IN  IF ~e.ok THEN DecodeError
        ELSE IF CharAt(s, j) = ","
             THEN ParseMembers(s, SkipWs(s, j + 1), members)
        ELSE IF CharAt(s, j) = "}"
             THEN Parsed(JObject(members), j + 1)
        ELSE DecodeError

ParseValue(s, i) ==
    LET c == CharAt(s, i)
        j == SkipWs(s, i + 1)
    IN  CASE c = "[" ->
               IF CharAt(s, j) = "]" THEN Parsed(JArray(<<>>), j + 1)
               ELSE ParseElements(s, j, <<>>)
          [] c = "{" ->
               IF CharAt(s, j) = "}" THEN Parsed(JObject(<<>>), j + 1)
               ELSE ParseMembers(s, j, <<>>)
          [] c = "\"" -> ParseString(s, i)
          [] c \in Digits -> ParseNumber(s, i)
          [] OccursAt(s, NULL_TOKEN, i) -> Parsed(JNull, i + Len(NULL_TOKEN))
          [] OTHER -> DecodeError

\* json.loads: one value, with whitespace around it and nothing else.
json_loads(s) ==
    LET e == ParseValue(s, SkipWs(s, 1))
    IN  IF e.ok /\ SkipWs(s, e.pos) = Len(s) + 1 THEN e ELSE DecodeError

\* ------------------------------------------- extract_chat_history
MARKER == <<"c", "h", "a", "t", "_", "h", "i", "s", "t", "o", "r", "y">>
ROLE == <<"r", "o", "l", "e">>
CONTENT == <<"c", "o", "n", "t", "e", "n", "t">>
USER == <<"u", "s", "e", "r">>

\* The two display labels of line 267.
UserLabel == "user label"
AssistantLabel == "assistant label"

\* What extract_chat_history returns: None, or the list of
\* [label, content] pairs.
NoChat == [none |-> TRUE, chat |-> <<>>]
Chat(entries) == [none |-> FALSE, chat |-> entries]
Entry(label, content) == [speaker |-> label, content |-> content]

\* key in msg and msg[key] for a dict made by json.loads: of members
\* with the same key the last one counts.
HasKey(members, key) == \E i \in DOMAIN members : members[i][1] = key
Get(members, key) ==
    LET i == CHOOSE i \in DOMAIN members :
                 /\ members[i][1] = key
                 /\ \A j \in DOMAIN members : j > i => members[j][1] # key
    IN  members[i][2]

\* Line 266, the operator in: a key of a dict, a substring of a str, an
\* element of a list; TypeError for a number or None.
InRaises(msg) == msg.t \in {"number", "null"}
KeyIn(key, msg) ==
    CASE msg.t = "object" -> HasKey(msg.v, key)
      [] msg.t = "string" -> In(key, msg.v)
      [] msg.t = "array" ->
           \E i \in DOMAIN msg.v : msg.v[i].t = "string" /\ msg.v[i].v = key
      [] OTHER -> FALSE

\* Lines 264-269: the loop over chat_data.  An element with both keys is
\* appended; msg["role"] raises TypeError for a str or a list; an element
\* without both keys is passed over.
RECURSIVE FormatChat(_, _)
FormatChat(chat_data, formatted_chat) ==
    IF chat_data = <<>> THEN [raised |-> FALSE, chat |-> formatted_chat]
    ELSE LET msg == Head(chat_data)
         IN  IF InRaises(msg) THEN [raised |-> TRUE, chat |-> <<>>]
             ELSE IF KeyIn(ROLE, msg) /\ KeyIn(CONTENT, msg)
                  THEN IF msg.t # "object"
                       THEN [raised |-> TRUE, chat |-> <<>>]
                       ELSE LET r == Get(msg.v, ROLE)
                                role == IF r.t = "string" /\ r.v = USER
                                        THEN UserLabel ELSE AssistantLabel
                            IN  FormatChat(Tail(chat_data),
                                    Append(formatted_chat,
                                        Entry(role, Get(msg.v, CONTENT))))
                  ELSE FormatChat(Tail(chat_data), formatted_chat)

\* Lines 255-259: the first of the lines j..last that contains "]", 0 when
\* none does.
RECURSIVE ClosingLine(_, _, _)
ClosingLine(logs_, j, last) ==
    IF j > last THEN 0
    ELSE IF In(<<"]">>, logs_[j]) THEN j
    ELSE ClosingLine(logs_, j + 1, last)

\* Lines 249-259: the text handed to json.loads for the marker line i,
\* which contains "[": the line from its first "[", stripped, and, when
\* that does not end with "]", the start of the first of the next
\* WINDOW - 1 lines that contains "]", up to that "]".
JsonStr(logs_, i) ==
    LET log == logs_[i]
        json_str == Strip(SubSeq(log, Find(log, <<"[">>), Len(log)))
        j == ClosingLine(logs_, i + 1, Min(i + WINDOW - 1, Len(logs_)))
    IN  IF json_str[Len(json_str)] # "]" /\ i < Len(logs_) /\ j # 0
        THEN json_str \o SubSeq(logs_[j], 1, Find(logs_[j], <<"]">>))
        ELSE json_str

\* Lines 246-274: the loop over the lines from line i on.  A line with
\* the marker and a "[" is tried; JSONDecodeError is passed over and the
\* loop goes on with the next line; any other exception ends the
\* function with None.
RECURSIVE ScanFrom(_, _)
ScanFrom(logs_, i) ==
    IF i > Len(logs_) THEN NoChat
    ELSE IF In(MARKER, logs_[i]) /\ In(<<"[">>, logs_[i])
         THEN LET chat_data == json_loads(JsonStr(logs_, i))
                  formatted == FormatChat(chat_data.val.v, <<>>)
              IN  IF ~chat_data.ok THEN ScanFrom(logs_, i + 1)
                  ELSE IF formatted.raised THEN NoChat
                  ELSE Chat(formatted.chat)
         ELSE ScanFrom(logs_, i + 1)

extract_chat_history(logs_) == ScanFrom(logs_, 1)

\* A call of extract_chat_history on the log.
ExtractChatHistoryCall ==
    /\ Len(chats) < MaxCalls
    /\ chats' = Append(chats, extract_chat_history(call_logs))
    /\ UNCHANGED <<call_logs, answers>>
    /\ UNCHANGED <<supvars, envvars>>

\* ------------------------------------ save_env_vars, load_env_vars
\* The names in the order of ENV_GROUPS, which is the order of the dict
\* handed to save_env_vars.
EnvOrder == << <<"OPENAI_API_KEY">>, <<"HF_TOKEN">> >>

\* The lines of a text, each with its line break.
RECURSIVE LinesOf(_)
LinesOf(text) ==
    LET n == Find(text, <<"\n">>)
    IN  IF text = <<>> THEN <<>>
        ELSE IF n = 0 THEN <<text>>
        ELSE <<SubSeq(text, 1, n)>> \o LinesOf(SubSeq(text, n + 1, Len(text)))

\* d[key] = value for a dict, which keeps the order of insertion.
Put(d, key, value) ==
    IF HasKey(d, key)
    THEN [i \in DOMAIN d |-> IF d[i][1] = key THEN <<key, value>> ELSE d[i]]
    ELSE Append(d, <<key, value>>)

\* Lines 86-90: the loop over the lines of .env.
RECURSIVE ReadLines(_, _)
ReadLines(lines, existing_content) ==
    IF lines = <<>> THEN existing_content
    ELSE LET line == Strip(Head(lines))
             n == Find(line, <<"=">>)
         IN  IF line # <<>> /\ line[1] # "#" /\ n # 0
             THEN ReadLines(Tail(lines),
                      Put(existing_content,
                          Strip(SubSeq(line, 1, n - 1)),
                          Strip(AfterFirst(line, <<"=">>))))
             ELSE ReadLines(Tail(lines), existing_content)

\* Lines 82-90: existing_content.
ReadDotfile(f) == IF f.exists THEN ReadLines(LinesOf(f.text), <<>>) ELSE <<>>

\* Lines 93-95: the non-empty values replace or extend existing_content.
RECURSIVE Update(_, _, _)
Update(existing_content, env_vars, order) ==
    IF order = <<>> THEN existing_content
    ELSE Update(IF env_vars[Head(order)] # <<>>
                THEN Put(existing_content, Head(order), env_vars[Head(order)])
                ELSE existing_content,
                env_vars, Tail(order))

\* Lines 100-102: one line key=value per entry.
RECURSIVE WriteLines(_)
WriteLines(existing_content) ==
    IF existing_content = <<>> THEN <<>>
    ELSE Head(existing_content)[1] \o <<"=">> \o Head(existing_content)[2]
            \o <<"\n">> \o WriteLines(Tail(existing_content))

\* Lines 78-104.
save_env_vars(env_vars) ==
    /\ epc \in {"loaded", "saved", "reloaded"}
    /\ dotfile' =
          File(WriteLines(Update(ReadDotfile(dotfile), env_vars, EnvOrder)))
    /\ environ' =
          [k \in DOMAIN environ \cup {n \in EnvNames : env_vars[n] # <<>>} |->
              IF k \in EnvNames /\ env_vars[k] # <<>>
              THEN env_vars[k] ELSE environ[k]]
    /\ submitted' = env_vars
    /\ before' = [stored |-> ReadDotfile(dotfile), environ |-> environ]
    /\ epc' = "saved"
    /\ UNCHANGED loaded
    /\ UNCHANGED <<supvars, extvars>>

\* Line 69, dotenv.load_dotenv(): the variables of .env that the
\* environment does not have yet are set; the others keep their values.
load_dotenv ==
    LET stored == ReadDotfile(dotfile)
        names == {stored[i][1] : i \in DOMAIN stored}
    IN  [k \in DOMAIN environ \cup names |->
            IF k \in DOMAIN environ THEN environ[k] ELSE Get(stored, k)]

\* Lines 65-76.
load_env_vars ==
    /\ environ' = load_dotenv
    /\ loaded' = [k \in EnvNames |->
                    IF k \in DOMAIN environ' THEN environ'[k] ELSE <<>>]
    /\ epc' = IF epc = "start" THEN "loaded"
              ELSE IF epc \in {"saved", "restarted"} THEN "reloaded"
              ELSE epc
    /\ UNCHANGED <<dotfile, submitted, before>>
    /\ UNCHANGED <<supvars, extvars>>

\* The process ends and is started again: its environment starts anew,
\* .env stays.
Restart ==
    /\ epc # "start"
    /\ environ' = NoEnviron
    /\ loaded' = NoValues
    /\ epc' = IF epc \in {"saved", "restarted"} THEN "restarted" ELSE "start"
    /\ UNCHANGED <<dotfile, submitted, before>>
    /\ UNCHANGED <<supvars, extvars>>

\* ------------------------------------------------------- specification
Next ==
    \/ Tick
    \/ \E p \in Runs : ChildEmit(p)
    \/ \E p \in Runs : ChildExit(p)
    \/ \E p \in Runs : ChildKilled(p)
    \/ \E p \in Runs : ChildShutdown(p)
    \/ \E r \in Runs : RunRequest(r)
    \/ \E r \in Runs : ClearTest(r)
    \/ \E r \in Runs : ClearGet(r)
    \/ \E r \in Runs : SpawnLock(r)
    \/ \E r \in Runs : Popen(r)
    \/ \E r \in Runs : Poll(r)
    \/ \E r \in Runs : WatchdogLock(r)
    \/ \E r \in Runs : WatchdogTerminate(r)
    \/ \E r \in Runs : DrainTest(r)
    \/ \E r \in Runs : DrainGet(r)
    \/ \E r \in Runs : Yield(r)
    \/ \E r \in Runs : FinalTest(r)
    \/ \E r \in Runs : FinalGet(r)
    \/ \E r \in Runs : Return(r)
    \/ \E r \in Runs : RelayOpen(r)
    \/ \E r \in Runs : RelayRead(r)
    \/ \E r \in Runs : RelayWrite(r)
    \/ \E r \in Runs : RelayPut(r)
    \/ \E t \in Terms : TerminateRequest(t)
    \/ \E t \in Terms : TerminateLock(t)
    \/ \E t \in Terms : TerminateCheck(t)
    \/ \E t \in Terms : TerminateSignalStep(t)
    \/ \E t \in Terms : TerminateWait(t)
    \/ \E t \in Terms : TerminateKill(t)
    \/ \E t \in Terms : TerminatePut(t)
    \/ \E t \in Terms : TerminateUnlock(t)

Spec == Init /\ [][Next]_vars

\* ----------------------------------------- the extractors on their own
\* Lines of a log with the answer token: twice on one line, and followed
\* by whitespace only.
TwiceLine ==
    ANSWER_TOKEN \o <<"c", " ">> \o ANSWER_TOKEN \o <<"d", "\n">>
EmptyAnswerLine == ANSWER_TOKEN \o <<" ", "\n">>

AnswerLines ==
    {PlainLine, AnswerLineA, AnswerLineB, TwiceLine, EmptyAnswerLine}

\* The logs handed to extract_answer.
AnswerLogs == UNION {[1..n -> AnswerLines] : n \in 0..MaxLogLines}

\* Texts of a JSON array of {role, content} objects as a script prints
\* them: element n has the role user when n is odd and assistant when n
\* is even, and the n-th letter as its content.
ASSISTANT == <<"a", "s", "s", "i", "s", "t", "a", "n", "t">>
Letters == <<"a", "b", "c", "d", "e", "f", "g", "h", "i", "j", "k", "l">>

Quoted(chars) == <<"\"">> \o chars \o <<"\"">>
ObjectText(role, content) ==
    <<"{">> \o Quoted(ROLE) \o <<":">> \o Quoted(role) \o <<",", " ">>
           \o Quoted(CONTENT) \o <<":">> \o Quoted(content) \o <<"}">>
ElementText(n) ==
    ObjectText(IF n % 2 = 1 THEN USER ELSE ASSISTANT, <<Letters[n]>>)

\* The marker line up to the array.
MarkerPrefix == MARKER \o <<":", " ">>

RECURSIVE ElementsText(_, _)
ElementsText(m, n) ==
    IF m > n THEN <<>>
    ELSE IF m = n THEN ElementText(m)
    ELSE ElementText(m) \o <<",">> \o ElementsText(m + 1, n)

\* The array of n elements on the marker line.
SingleLineLog(n) ==
    << MarkerPrefix \o <<"[">> \o ElementsText(1, n) \o <<"]", "\n">> >>

\* The array of k + 1 elements, one element per line, on the marker line
\* and the k lines after it.
SplitLog(k) ==
    [m \in 1..(k + 1) |->
        (IF m = 1 THEN MarkerPrefix \o <<"[">> ELSE <<>>)
            \o ElementText(m)
            \o (IF m = k + 1 THEN <<"]">> ELSE <<",">>) \o <<"\n">>]

ArrayLogs ==
    {SingleLineLog(n) : n \in 1..3}
        \cup {SplitLog(k) : k \in 1..MaxFollow}
        \cup {<<PlainLine>> \o SplitLog(k) \o <<PlainLine>> : k \in 1..MaxFollow}

\* Marker lines whose text from the first "[" is not the text of an array
\* of {role, content} objects.
MarkerLine(text) == MarkerPrefix \o text \o <<"\n">>
NoRoleText == <<"{">> \o Quoted(CONTENT) \o <<":">> \o Quoted(<<"c">>) \o <<"}">>

UnclosedLine == MarkerLine(<<"[">> \o ElementText(1))
GarbageLine == MarkerLine(<<"[", "o", "o", "p", "s", "]">>)
NumberLine == MarkerLine(<<"[", "1", "]">>)
NullLine == MarkerLine(<<"[">> \o NULL_TOKEN \o <<"]">>)
StringLine == MarkerLine(<<"[">> \o Quoted(<<"x">>) \o <<"]">>)
NoRoleLine == MarkerLine(<<"[">> \o NoRoleText \o <<"]">>)
PartialLine ==
    MarkerLine(<<"[">> \o ElementText(1) \o <<",", " ">> \o NoRoleText \o <<"]">>)
TaggedLine ==
    <<"[", "I", "]", " ">> \o MarkerPrefix \o <<"[">> \o ElementText(1) \o <<"]", "\n">>

MalformedLines ==
    {UnclosedLine, GarbageLine, NumberLine, NullLine, StringLine,
     NoRoleLine, PartialLine, TaggedLine}

MalformedLogs ==
    {<<line>> : line \in MalformedLines}
        \cup {<<PlainLine, line, PlainLine>> : line \in MalformedLines}

\* Logs with two marker lines: the first without an array start or with
\* text that does not parse, the second with a well-formed array.
NoArrayLine == MarkerLine(<<"n", "o", "n", "e">>)

TwoMarkerLogs ==
    {<<first>> \o SingleLineLog(n) :
        first \in {NoArrayLine, GarbageLine, UnclosedLine}, n \in 1..2}
        \cup {<<first, PlainLine>> \o SingleLineLog(n) :
                first \in {NoArrayLine, GarbageLine, UnclosedLine}, n \in 1..2}

\* The logs handed to extract_chat_history.
ChatLogs == ArrayLogs \cup MalformedLogs \cup TwoMarkerLogs

\* ---------------------------------------- the configuration on its own
\* Values typed into the boxes of the settings tab: nothing, a key, the
\* key with a blank after it, and a value with "=" in it.
EnvValues == {<<>>, <<"v">>, <<"v", " ">>, <<"a", "=", "b">>}

\* .env when the process starts: absent, with a comment and a variable
\* that is not in ENV_GROUPS, or with a variable of ENV_GROUPS.
InitialFiles ==
    { NoFile,
      File(<<"#", "c", "\n", "OTHER", " ", "=", " ", "x", "\n">>),
      File(<<"HF_TOKEN", "=", "w", "\n">>) }

EnvInit ==
    /\ limits = Scenario(0, 0, 0, 0, {})
    /\ SupervisorIdle
    /\ ExtractIdle
    /\ dotfile \in InitialFiles
    /\ environ = NoEnviron
    /\ loaded = NoValues
    /\ submitted = NoValues
    /\ before = [stored |-> <<>>, environ |-> NoEnviron]
    /\ epc = "start"

EnvNext ==
    \/ load_env_vars
    \/ \E env_vars \in [EnvNames -> EnvValues] : save_env_vars(env_vars)
    \/ Restart

EnvSpec == EnvInit /\ [][EnvNext]_vars

ExtractInit ==
    /\ limits = Scenario(0, 0, 0, 0, {})
    /\ SupervisorIdle
    /\ EnvIdle
    /\ call_logs \in AnswerLogs \cup ChatLogs
    /\ answers = <<>>
    /\ chats = <<>>

ExtractNext ==
    \/ ExtractAnswerCall
    \/ ExtractChatHistoryCall

ExtractSpec == ExtractInit /\ [][ExtractNext]_vars

\* ----------------------------------------------------------- claims
Finished(r) == dpc[r] \in {"returned", "raised"}
Spawned(r) == pst[r] # "none"
StatusKind(status) == status[1]
Contains(seq, x) == \E i \in DOMAIN seq : seq[i] = x

\* C1: at most one run is live at any time: at most one child spawned by
\* run_script is still running, and at most one driver loop polls the
\* shared handle current_process.
C1_AtMostOneLive ==
    /\ Cardinality({p \in Runs : Alive(p)}) <= 1
    /\ Cardinality({r \in Runs : dpc[r] \in LoopPcs}) <= 1

\* C3: a run whose watchdog terminated the child reports a timeout status,
\* distinct from running, succeeded and failed, and its log keeps every
\* line accumulated before the timeout.
C3_TimeoutStatus ==
    \A r \in Runs :
        (dpc[r] = "returned" /\ tmo[r]) =>
            /\ StatusKind(ret[r].status) \notin {"running", "succeeded", "failed"}
            /\ ret[r].log = logs[r]

\* C4: for a run whose child exits by itself and whose driver observes the
\* exit, the status reported is succeeded if and only if the exit code is
\* 0, and failed with exactly that code otherwise, never running.
C4_ExitStatus ==
    \A r \in Runs :
        (dpc[r] = "returned" /\ phow[r] = "self" /\ ~tmo[r]) =>
            ret[r].status =
                IF pcode[r] = 0 THEN StatusSuccess ELSE StatusFailed(pcode[r])

\* C5: a run request with an empty or whitespace-only question spawns no
\* child, and the validation message is the output its caller observes.
Rejected(r) == dpc[r] = "returned" /\ ret[r].status = ValidationMsg

C5_ValidationObserved ==
    \A r \in Runs :
        Rejected(r) =>
            /\ ~Spawned(r)
            /\ observed[r].status = ValidationMsg

\* C2: the lines a relay has put on log_queue are exactly the lines it has
\* written to its log file, in the same order and each once; the one line
\* the file is ahead by is the line the relay is about to put.
C2_RelayMirror ==
    \A r \in Runs :
        /\ file[r] = IF rpc[r] = "put" THEN Append(pushed[r], rline[r])
                     ELSE pushed[r]
        /\ \A i, j \in DOMAIN pushed[r] :
              i < j => /\ pushed[r][i] # pushed[r][j]
                       /\ pushed[r][i][2] = pushed[r][j][2]
                       /\ pushed[r][i][3] < pushed[r][j][3]

\* A relay has reached the end of its stream after relaying two lines.
C2_Witness ==
    \E r \in Runs : rpc[r] = "done" /\ Len(file[r]) = 2 /\ pushed[r] = file[r]

\* C6: a terminate_process that finds no active child (current_process is
\* None or has exited) returns the no-op message and, up to its return,
\* sends no signal, puts nothing on log_queue and leaves current_process
\* unchanged.
C6_NoOpStep(t) ==
    /\ (/\ tpc[t] = "check"
        /\ tpc'[t] # "check"
        /\ (current_process = None \/ pst[current_process] # "running"))
       => /\ tpc'[t] = "unlock"
          /\ tresult'[t] = NoProcessMsg
          /\ UNCHANGED <<current_process, log_queue, sigs>>
    /\ (tpc[t] = "unlock" /\ tresult[t] = NoProcessMsg /\ tpc'[t] # "unlock")
       => /\ tpc'[t] = "done"
          /\ tresult'[t] = NoProcessMsg
          /\ tsent'[t] = <<>>
          /\ tputs'[t] = 0
          /\ UNCHANGED <<current_process, log_queue, sigs>>

C6_TerminateNoOp == [][\A t \in Terms : C6_NoOpStep(t)]_vars

\* A first terminate request stopped the child, and a second one, made
\* after the child had exited, returned the no-op message.
C6_Witness ==
    /\ tpc[1] = "done" /\ tresult[1] = TerminatedMsg
    /\ tpc[2] = "done" /\ tresult[2] = NoProcessMsg
    /\ current_process # None /\ pst[current_process] = "exited"

\* C7: terminate_process sends the cooperative request first; the kill is
\* sent only after it and only once the 5-unit grace period has passed
\* with the child alive; without the kill the handler goes on only when
\* the child has exited; from the test to the return it holds
\* process_lock, and it has released the lock when it is done.
C7_GraceThenKill ==
    \A t \in Terms :
        /\ tsent[t] \in {<<>>, <<StopSignal>>, <<StopSignal, KillSignal>>}
        /\ (tpc[t] = "kill" \/ Contains(tsent[t], KillSignal))
              => waited[t] >= GRACE_PERIOD
        /\ (tpc[t] \in {"put", "unlock"} /\ tresult[t] # NoProcessMsg
              /\ ~Contains(tsent[t], KillSignal))
              => ~Alive(current_process)
        /\ tpc[t] \in {"check", "signal", "wait", "kill", "put", "unlock"}
              <=> process_lock = Handler(t)

\* A handler has sent the cooperative request and then the kill.
C7_Witness ==
    \E t \in Terms : tpc[t] = "done" /\ tsent[t] = <<StopSignal, KillSignal>>

\* C8: every run that started a child ends with a last snapshot observed
\* by its consumer that carries a terminal status and the full log.
C8_FinalSnapshotObserved ==
    \A r \in Runs :
        (dpc[r] = "returned" /\ Spawned(r)) =>
            /\ StatusKind(observed[r].status) \in {"succeeded", "failed"}
            /\ observed[r].log = logs[r]

\* C9: a run whose child was stopped by an explicit terminate request
\* reports a status that is none of running, succeeded and failed.
StoppedByRequest(r) == phow[r] = "signal" /\ Contains(sigs[r], StopSignal)

C9_TerminatedStatus ==
    \A r \in Runs :
        (dpc[r] = "returned" /\ StoppedByRequest(r)) =>
            StatusKind(ret[r].status) \notin {"running", "succeeded", "failed"}

\* C10 as stated: a run whose child could not be created ends by returning
\* a failed status, with nothing spawned and process_lock released.
SpawnFailed(r) == Finished(r) /\ ~Spawned(r) /\ ~Rejected(r)

C10_FailedStatus ==
    \A r \in Runs :
        SpawnFailed(r) =>
            /\ dpc[r] = "returned"
            /\ StatusKind(ret[r].status) = "failed"
            /\ process_lock # Driver(r)

\* C10 as amended: a run whose child could not be created ends with the
\* exception of Popen leaving run_script: no snapshot is yielded or
\* returned, the run takes no further step (no retry), nothing is spawned,
\* no relay is started, current_process keeps its value, and process_lock
\* is released.
C10_Raised(r) ==
    /\ dpc[r] = "raised"
    /\ ~Spawned(r)
    /\ rpc[r] = "none"
    /\ ret[r] = NoSnapshot
    /\ observed[r] = NoSnapshot
    /\ process_lock # Driver(r)

C10_SpawnFailureRaises ==
    /\ [](\A r \in Runs : SpawnFailed(r) => C10_Raised(r))
    /\ [][\A r \in Runs :
            /\ dpc[r] = "raised" => C10_Raised(r)'
            /\ (dpc[r] # "raised" /\ dpc'[r] = "raised")
                  => current_process' = current_process]_vars

\* The spawn of the second run failed while the first run was running.
C10_Witness ==
    /\ dpc[2] = "raised"
    /\ process_lock = Free
    /\ Alive(1)

\* C11: extract_answer returns the text that follows the first occurrence
\* of "Answer:" on the first line that contains it, without the whitespace
\* around it, whatever the later lines are; it returns the empty string
\* when no line contains the token; every call on the same log returns
\* the same string.
C11_TokenAt(line, k) ==
    /\ k + 6 <= Len(line)
    /\ \A c \in 1..7 : line[k + c - 1] = ANSWER_TOKEN[c]

C11_HasToken(line) == \E k \in 1..Len(line) : C11_TokenAt(line, k)

C11_Trimmed(a, t) ==
    \E i \in 1..(Len(t) + 1) :
        \E j \in 0..Len(t) :
            /\ a = SubSeq(t, i, j)
            /\ \A m \in 1..(i - 1) : t[m] \in Whitespace
            /\ \A m \in (j + 1)..Len(t) : t[m] \in Whitespace
            /\ a # <<>> => (a[1] \notin Whitespace /\ a[Len(a)] \notin Whitespace)

C11_Answer(lines, a) ==
    IF \E n \in DOMAIN lines : C11_HasToken(lines[n])
    THEN \E n \in DOMAIN lines :
            /\ C11_HasToken(lines[n])
            /\ \A m \in 1..(n - 1) : ~C11_HasToken(lines[m])
            /\ \E k \in 1..Len(lines[n]) :
                  /\ C11_TokenAt(lines[n], k)
                  /\ \A j \in 1..(k - 1) : ~C11_TokenAt(lines[n], j)
                  /\ C11_Trimmed(a, SubSeq(lines[n], k + 7, Len(lines[n])))
    ELSE a = <<>>

C11_FirstAnswer ==
    \A c \in DOMAIN answers : C11_Answer(call_logs, answers[c])

\* Two calls on a log whose first line with the token carries it twice,
\* before a line with another answer.
C11_Witness ==
    /\ call_logs = <<PlainLine, TwiceLine, AnswerLineA>>
    /\ answers = << <<"c", " ">> \o ANSWER_TOKEN \o <<"d">>,
                    <<"c", " ">> \o ANSWER_TOKEN \o <<"d">> >>

\* C12: a well-formed array of {role, content} objects that starts on a
\* marker line and is spread over that line and up to 9 lines after it
\* gives the transcript that the same array gives on a single line, also
\* when lines between the first and the closing one hold elements; when
\* the closing bracket is further away the result is None.
C12_Transcript(n) ==
    [m \in 1..n |->
        Entry(IF m % 2 = 1 THEN UserLabel ELSE AssistantLabel,
              JString(<<Letters[m]>>))]

C12_SplitReassembly ==
    \A c \in DOMAIN chats :
        /\ \A n \in 1..3 :
              call_logs = SingleLineLog(n) => chats[c] = Chat(C12_Transcript(n))
        /\ \A k \in 1..MaxFollow :
              call_logs \in {SplitLog(k), <<PlainLine>> \o SplitLog(k) \o <<PlainLine>>}
                 => chats[c] = IF k <= WINDOW - 1
                               THEN Chat(C12_Transcript(k + 1))
                               ELSE NoChat

\* C13: when the text assembled after the marker does not parse, or is
\* not an array of objects that all have role and content, the result of
\* extract_chat_history is None, never a partial or empty transcript.
C13_MalformedAbsent ==
    \A c \in DOMAIN chats :
        call_logs \in MalformedLogs => chats[c] = NoChat

\* C16: only the first marker line is used: when it has no array start
\* or its text does not parse, the result is None even though a later
\* marker line carries a well-formed array.
C16_FirstMarkerOnly ==
    \A c \in DOMAIN chats :
        call_logs \in TwoMarkerLogs => chats[c] = NoChat

\* C14: after a save and a reload, every submitted name with a non-empty
\* value V has the value V, in .env and in the reloaded values; every
\* submitted name with an empty value has in .env what it had before the
\* save; and what .env held for the other names is retained unchanged.
C14_Stored(stored, key) ==
    IF HasKey(stored, key) THEN <<Get(stored, key)>> ELSE <<>>

C14_SaveReload ==
    epc = "reloaded" =>
        /\ \A k \in EnvNames :
              IF submitted[k] # <<>>
              THEN /\ loaded[k] = submitted[k]
                   /\ C14_Stored(ReadDotfile(dotfile), k) = <<submitted[k]>>
              ELSE C14_Stored(ReadDotfile(dotfile), k)
                       = C14_Stored(before.stored, k)
        /\ \A i \in DOMAIN before.stored :
              before.stored[i][1] \notin EnvNames =>
                  C14_Stored(ReadDotfile(dotfile), before.stored[i][1])
                      = <<before.stored[i][2]>>

\* No run request other than r has been made.
OnlyRun(r) == \A q \in Runs \ {r} : dpc[q] = "idle"

\* C15: when terminate_process has terminated the child of the only run,
\* the notice it queued is in the log the run reports at its end.
C15_NoticeInFinalLog ==
    \A r \in Runs :
        \A t \in Terms :
            (/\ OnlyRun(r)
             /\ dpc[r] = "returned"
             /\ StoppedByRequest(r)
             /\ tpc[t] = "done"
             /\ tsent[t] # <<>>)
                => Contains(ret[r].log, TerminatedLine(t))

\* C17: for a single run whose child ends by itself, without watchdog
\* and without terminate request, the log of the final snapshot holds
\* every line the child wrote, in order: it equals the run's log file
\* once the relay has reached the end of the stream.
C17_FinalLogComplete ==
    \A r \in Runs :
        (/\ OnlyRun(r)
         /\ dpc[r] = "returned"
         /\ rpc[r] = "done"
         /\ phow[r] = "self"
         /\ ~tmo[r]
         /\ \A t \in Terms : tpc[t] = "idle")
            => /\ ret[r].log = file[r]
               /\ Len(ret[r].log) = Len(emitted[r])

\* C18: the log of a run holds only lines queued for that run: output of
\* its own child, its own timeout notice, and termination notices about
\* its own child (the notice of a handler is about the process of the
\* handle); and the queue clearing of a run discards no line of another
\* run that has not finished.
C18_LineOf(line, r) ==
    IF line[1] = "terminated" THEN current_process = r
    ELSE line[2] = r

C18_OwnLinesOnly ==
    /\ [](\A r \in Runs :
            \A i \in DOMAIN logs[r] : C18_LineOf(logs[r][i], r))
    /\ [][\A r \in Runs :
            (dpc[r] = "clear_get" /\ dpc'[r] = "clear")
                => \A q \in Runs \ {r} :
                      C18_LineOf(Head(log_queue), q) => Finished(q)]_vars

\* C19: when the driver of the only run has finished, the child the run
\* started is no longer running, also after the watchdog fired.
C19_ChildGoneAtReturn ==
    \A r \in Runs :
        (OnlyRun(r) /\ Finished(r) /\ Spawned(r)) => ~Alive(r)

\* C20: once a snapshot of a run carries a non-empty answer, every later
\* snapshot of the run and the final tuple carry the same answer: each
\* step that yields a snapshot or returns the final tuple keeps it.
C20_AnswerStable ==
    [][\A r \in Runs :
          (/\ observed[r] # NoSnapshot
           /\ observed'[r] # observed[r] \/ ret'[r] # ret[r]
           /\ Answer(observed[r]) # <<>>)
              => /\ (Answer(observed[r]))' = Answer(observed[r])
                 /\ dpc'[r] = "returned"
                       => (Answer(ret[r]))' = Answer(observed[r])]_vars

\* A run has yielded a snapshot with the answer of its first line and
\* has returned a log whose second line carries another answer.
C20_Witness ==
    \E r \in Runs :
        /\ dpc[r] = "returned"
        /\ Answer(observed[r]) = <<"a">>
        /\ Len(observed[r].log) = 1
        /\ Len(ret[r].log) = 2
        /\ LineText(ret[r].log[2]) = AnswerLineB
        /\ Answer(ret[r]) = <<"a">>

====
